---- MODULE Spec2Model ----
(***************************************************************************)
(* A model of api/analyze-policy.js: the serverless handler that checks a  *)
(* request, reads the uploaded policy file, asks the chat-completion API   *)
(* for an analysis and normalises the reply into the response envelope.    *)
(*                                                                         *)
(* Text that the code inspects character by character (the file name, the  *)
(* model's reply) is a sequence of one-character strings.  Text the code   *)
(* only passes around (error messages, fixed prompts) is a string.         *)
(***************************************************************************)
EXTENDS Integers, Sequences, FiniteSets, TLC

VARIABLES
  env,        \* process.env: API_KEY, OPENAI_API_KEY, NODE_ENV
  pc,         \* where the handler is: idle, parsing, fetching, errorText, json, done
  req,        \* the request being handled: method and x-api-key header
  form,       \* what form.parse handed to its callback
  upload,     \* what the handler took from the upload: fileName, fileExtension, fileContent
  parses,     \* number of form.parse calls made on the request
  reads,      \* number of fs.readFileSync calls made
  fetches,    \* the bodies of the outbound chat-completion calls, in order
  modelResp,  \* how the outbound call settled
  analysisResult, \* the first choice's message content, once read
  responses   \* the responses written to res, in order

vars == <<env, pc, req, form, upload, parses, reads, fetches, modelResp,
          analysisResult, responses>>

----------------------------------------------------------------------------
(* Bounds of the model *)

\* Longest generated model reply (every text over GenAlphabet up to this length)
MaxReplyLen == 4

----------------------------------------------------------------------------
(* Character-level text helpers *)

Take(s, n) == SubSeq(s, 1, IF Len(s) < n THEN Len(s) ELSE n)

Drop(s, n) == SubSeq(s, n + 1, Len(s))

StartsWithAt(s, i, p) ==
  /\ i + Len(p) - 1 <= Len(s)
  /\ \A k \in 1..Len(p) : s[i + k - 1] = p[k]

Min(S) == CHOOSE x \in S : \A y \in S : x <= y

Max(S) == CHOOSE x \in S : \A y \in S : y <= x

\* String.prototype.toLowerCase on the letters that file names of the model use
LowerChar(c) ==
  CASE c = "P" -> "p" [] c = "N" -> "n" [] c = "G" -> "g" [] c = "J" -> "j"
    [] c = "D" -> "d" [] c = "F" -> "f" [] c = "E" -> "e" [] c = "A" -> "a"
    [] OTHER -> c

toLowerCase(s) == [i \in 1..Len(s) |-> LowerChar(s[i])]

\* fileName.split('.').pop(): the text after the last '.', the whole name
\* when it holds no '.'
LastDotSegment(s) ==
  LET dots == {i \in 1..Len(s) : s[i] = "."}
  IN  IF dots = {} THEN s
      ELSE Drop(s, Max(dots))

\* White space of String.prototype.trim and of the JSON grammar, as far as the
\* model's texts hold it
IsSpace(c) == c \in {" ", "\n", "\t", "\r"}

trim(s) ==
  LET ink == {i \in 1..Len(s) : ~IsSpace(s[i])}
  IN  IF ink = {} THEN <<>>
      ELSE SubSeq(s, Min(ink), Max(ink))

\* The backquote character (a TLA+ string cannot hold it)
BQ == "U+0060"

FenceJson == <<BQ, BQ, BQ, "j", "s", "o", "n">>

Fence == <<BQ, BQ, BQ>>

\* s.replace(/<p>\n?/g, ''): every leftmost non-overlapping occurrence of p,
\* with the newline that follows it when there is one, is removed.  The scan
\* copies the text up to the next occurrence at or after i and goes on behind it.
RECURSIVE RemoveFrom(_, _, _)
RemoveFrom(s, i, p) ==
  LET found == {k \in i..Len(s) : StartsWithAt(s, k, p)}
  IN  IF found = {} THEN SubSeq(s, i, Len(s))
      ELSE LET k     == Min(found)
               after == k + Len(p)
           IN  SubSeq(s, i, k - 1)
                 \o RemoveFrom(s, IF after <= Len(s) /\ s[after] = "\n"
                                  THEN after + 1 ELSE after, p)

RemoveAll(s, p) == RemoveFrom(s, 1, p)

----------------------------------------------------------------------------
(* JSON values and JSON.parse *)

\* A JSON value is a record tagged by t; an object keeps its members in
\* insertion order, one per key.
JNull == [t |-> "null"]

JBool(b) == [t |-> "bool", b |-> b]

JNum(n) == [t |-> "num", n |-> n]

JStr(s) == [t |-> "str", s |-> s]

JArr(e) == [t |-> "arr", e |-> e]

JObj(m) == [t |-> "obj", m |-> m]

Member(k, v) == [k |-> k, v |-> v]

IsObj(v) == v.t = "obj"

Has(v, k) == IsObj(v) /\ \E i \in 1..Len(v.m) : v.m[i].k = k

Get(v, k) == v.m[CHOOSE i \in 1..Len(v.m) : v.m[i].k = k].v

\* obj[k] = v: a key already present keeps its place and takes the new value
SetMember(m, k, v) ==
  IF \E i \in 1..Len(m) : m[i].k = k
  THEN [i \in 1..Len(m) |-> IF m[i].k = k THEN Member(k, v) ELSE m[i]]
  ELSE Append(m, Member(k, v))

Digits == {"0", "1", "2", "3", "4", "5", "6", "7", "8", "9"}

DigitVal(c) ==
  CASE c = "0" -> 0 [] c = "1" -> 1 [] c = "2" -> 2 [] c = "3" -> 3
    [] c = "4" -> 4 [] c = "5" -> 5 [] c = "6" -> 6 [] c = "7" -> 7
    [] c = "8" -> 8 [] OTHER -> 9

\* A parse step: ok, the value read and the index after it
Fail == [ok |-> FALSE, val |-> JNull, next |-> 0]

Done(v, n) == [ok |-> TRUE, val |-> v, next |-> n]

\* The first index at or after i that holds no white space (Len(s) + 1 when
\* the text ends first)
SkipWs(s, i) == Min({k \in i..Len(s) : ~IsSpace(s[k])} \cup {Len(s) + 1})

\* A string: '"', characters that are no '"', no '\' and no control
\* character, '"'.  Escapes are outside the texts of the model.
\* StringEnd is the index of the closing '"', 0 when there is none before a
\* character a string cannot hold.
StringEnd(s, i) ==
  LET stops == {k \in i..Len(s) : s[k] \in {"\"", "\\", "\n", "\t", "\r"}}
  IN  IF stops = {} THEN 0
      ELSE IF s[Min(stops)] = "\"" THEN Min(stops) ELSE 0

ParseString(s, i) ==
  IF i <= Len(s) /\ s[i] = "\""
  THEN LET e == StringEnd(s, i + 1)
       IN  IF e = 0 THEN Fail ELSE Done(JStr(SubSeq(s, i + 1, e - 1)), e + 1)
  ELSE Fail

\* A number: 0, or a digit 1-9 followed by digits.  Signs, fractions and
\* exponents are outside the texts of the model.
NumberEnd(s, i) == Min({k \in i..Len(s) : s[k] \notin Digits} \cup {Len(s) + 1})

RECURSIVE NumberVal(_, _, _)
NumberVal(s, i, e) ==
  IF e <= i THEN 0 ELSE NumberVal(s, i, e - 1) * 10 + DigitVal(s[e - 1])

ParseNumber(s, i) ==
  LET e == NumberEnd(s, i)
  IN  IF e = i \/ (s[i] = "0" /\ e > i + 1) THEN Fail
      ELSE Done(JNum(NumberVal(s, i, e)), e)

RECURSIVE ParseValue(_, _)
RECURSIVE ParseMembers(_, _, _)
RECURSIVE ParseElements(_, _, _)

\* value: white space, then an object, an array, a string, a number or a literal
ParseValue(s, i0) ==
  LET i == SkipWs(s, i0)
  IN  IF i > Len(s) THEN Fail
      ELSE IF s[i] = "{"
           THEN LET j == SkipWs(s, i + 1)
                IN  IF j <= Len(s) /\ s[j] = "}" THEN Done(JObj(<<>>), j + 1)
                    ELSE ParseMembers(s, j, <<>>)
      ELSE IF s[i] = "["
           THEN LET j == SkipWs(s, i + 1)
                IN  IF j <= Len(s) /\ s[j] = "]" THEN Done(JArr(<<>>), j + 1)
                    ELSE ParseElements(s, j, <<>>)
      ELSE IF s[i] = "\"" THEN ParseString(s, i)
      ELSE IF s[i] \in Digits THEN ParseNumber(s, i)
      ELSE IF StartsWithAt(s, i, <<"t", "r", "u", "e">>) THEN Done(JBool(TRUE), i + 4)
      ELSE IF StartsWithAt(s, i, <<"f", "a", "l", "s", "e">>) THEN Done(JBool(FALSE), i + 5)
      ELSE IF StartsWithAt(s, i, <<"n", "u", "l", "l">>) THEN Done(JNull, i + 4)
      ELSE Fail

\* members: string ':' value, then ',' and more members or '}'
ParseMembers(s, i0, acc) ==
  LET k == ParseString(s, SkipWs(s, i0))
  IN  IF ~k.ok THEN Fail
      ELSE LET c == SkipWs(s, k.next)
           IN  IF c > Len(s) \/ s[c] # ":" THEN Fail
               ELSE LET v == ParseValue(s, c + 1)
                    IN  IF ~v.ok THEN Fail
                        ELSE LET n   == SkipWs(s, v.next)
                                 got == SetMember(acc, k.val.s, v.val)
                             IN  IF n > Len(s) THEN Fail
                                 ELSE IF s[n] = "}" THEN Done(JObj(got), n + 1)
                                 ELSE IF s[n] = "," THEN ParseMembers(s, n + 1, got)
                                 ELSE Fail

\* elements: value, then ',' and more elements or ']'
ParseElements(s, i0, acc) ==
  LET v == ParseValue(s, i0)
  IN  IF ~v.ok THEN Fail
      ELSE LET n == SkipWs(s, v.next)
           IN  IF n > Len(s) THEN Fail
               ELSE IF s[n] = "]" THEN Done(JArr(Append(acc, v.val)), n + 1)
               ELSE IF s[n] = "," THEN ParseElements(s, n + 1, Append(acc, v.val))
               ELSE Fail

\* JSON.parse(text): the value when the whole text is one JSON value, a
\* SyntaxError otherwise
JSONparse(s) ==
  LET v == ParseValue(s, 1)
  IN  IF v.ok /\ SkipWs(s, v.next) = Len(s) + 1
      THEN [ok |-> TRUE, val |-> v.val]
      ELSE [ok |-> FALSE, val |-> JNull]

----------------------------------------------------------------------------
(* Result normaliser: the reply text to the analysis data *)

\* The keys and the fixed texts of the fallback result, as character sequences
K_executive_summary ==
  <<"e", "x", "e", "c", "u", "t", "i", "v", "e", "_", "s", "u", "m", "m",
    "a", "r", "y">>

K_current_premium ==
  <<"c", "u", "r", "r", "e", "n", "t", "_", "p", "r", "e", "m", "i", "u",
    "m">>

K_overall_assessment ==
  <<"o", "v", "e", "r", "a", "l", "l", "_", "a", "s", "s", "e", "s", "s",
    "m", "e", "n", "t">>

K_savings_potential ==
  <<"s", "a", "v", "i", "n", "g", "s", "_", "p", "o", "t", "e", "n", "t",
    "i", "a", "l">>

K_confidence_score ==
  <<"c", "o", "n", "f", "i", "d", "e", "n", "c", "e", "_", "s", "c", "o",
    "r", "e">>

K_savings_opportunities ==
  <<"s", "a", "v", "i", "n", "g", "s", "_", "o", "p", "p", "o", "r", "t",
    "u", "n", "i", "t", "i", "e", "s">>

K_immediate_actions ==
  <<"i", "m", "m", "e", "d", "i", "a", "t", "e", "_", "a", "c", "t", "i",
    "o", "n", "s">>

K_estimated_savings_range ==
  <<"e", "s", "t", "i", "m", "a", "t", "e", "d", "_", "s", "a", "v", "i",
    "n", "g", "s", "_", "r", "a", "n", "g", "e">>

K_full_analysis_text ==
  <<"f", "u", "l", "l", "_", "a", "n", "a", "l", "y", "s", "i", "s", "_",
    "t", "e", "x", "t">>

T_AnalysisCompleted ==
  <<"A", "n", "a", "l", "y", "s", "i", "s", " ", "c", "o", "m", "p", "l",
    "e", "t", "e", "d">>

T_Range ==
  <<"1", "5", "-", "2", "5", "%">>

T_Action1 ==
  <<"R", "e", "v", "i", "e", "w", " ", "c", "l", "a", "s", "s", "i", "f",
    "i", "c", "a", "t", "i", "o", "n", " ", "c", "o", "d", "e", "s", " ",
    "f", "o", "r", " ", "a", "c", "c", "u", "r", "a", "c", "y">>

T_Action2 ==
  <<"V", "e", "r", "i", "f", "y", " ", "p", "a", "y", "r", "o", "l", "l",
    " ", "c", "a", "l", "c", "u", "l", "a", "t", "i", "o", "n", "s">>

T_Action3 ==
  <<"C", "h", "e", "c", "k", " ", "e", "x", "p", "e", "r", "i", "e", "n",
    "c", "e", " ", "m", "o", "d", "i", "f", "i", "c", "a", "t", "i", "o",
    "n", " ", "f", "a", "c", "t", "o", "r">>

AssessmentLen == 300

DefaultConfidence == 85

\* analysisResult.replace(/```json\n?/g, '').replace(/```\n?/g, '').trim()
CleanedResult(reply) ==
  trim(RemoveAll(RemoveAll(reply, FenceJson), Fence))

\* Variant: the fallback keeps the cleaned text instead of the reply
FallbackData_Cleaned(reply) ==
  JObj(<<
    Member(K_executive_summary, JObj(<<
      Member(K_current_premium, JStr(T_AnalysisCompleted)),
      Member(K_overall_assessment, JStr(Take(CleanedResult(reply), AssessmentLen))),
      Member(K_savings_potential, JStr(T_Range)),
      Member(K_confidence_score, JNum(DefaultConfidence)) >>)),
    Member(K_savings_opportunities, JObj(<<
      Member(K_immediate_actions,
             JArr(<<JStr(T_Action1), JStr(T_Action2), JStr(T_Action3)>>)),
      Member(K_estimated_savings_range, JStr(T_Range)) >>)),
    Member(K_full_analysis_text, JStr(CleanedResult(reply))) >>)

\* The fallback object built when the reply yields no JSON
FallbackData(reply) ==
  JObj(<<
    Member(K_executive_summary, JObj(<<
      Member(K_current_premium, JStr(T_AnalysisCompleted)),
      Member(K_overall_assessment, JStr(Take(reply, AssessmentLen))),
      Member(K_savings_potential, JStr(T_Range)),
      Member(K_confidence_score, JNum(DefaultConfidence)) >>)),
    Member(K_savings_opportunities, JObj(<<
      Member(K_immediate_actions,
             JArr(<<JStr(T_Action1), JStr(T_Action2), JStr(T_Action3)>>)),
      Member(K_estimated_savings_range, JStr(T_Range)) >>)),
    Member(K_full_analysis_text, JStr(reply)) >>)

\* cleanedResult.match(/\{[\s\S]*\}/): from the first '{' to the last '}'
\* after it; <<>> stands for no match (a match holds two characters or more)
JsonMatch(cleanedResult) ==
  LET opens  == {i \in 1..Len(cleanedResult) : cleanedResult[i] = "{"}
      closes == {i \in 1..Len(cleanedResult) : cleanedResult[i] = "}"}
  IN  IF opens = {} \/ closes = {} THEN <<>>
      ELSE LET first == Min(opens)
               last  == Max(closes)
           IN  IF first < last THEN SubSeq(cleanedResult, first, last) ELSE <<>>

\* The try block: the parsed object, or the throw that the catch turns into
\* the fallback
ParsedReply(reply) ==
  LET jsonMatch == JsonMatch(CleanedResult(reply))
  IN  IF jsonMatch = <<>> THEN [ok |-> FALSE, val |-> JNull]
      ELSE JSONparse(jsonMatch)

\* analysisData after the try/catch
AnalysisData(reply) ==
  LET parsed == ParsedReply(reply)
  IN  IF parsed.ok THEN parsed.val ELSE FallbackData(reply)

----------------------------------------------------------------------------
(* The inputs of a run: configuration, request, upload, model API answers *)

\* An optional string: <<>> is undefined, <<s>> is the string s
Undefined == <<>>

Str(s) == <<s>>

\* JavaScript truthiness of an optional string
Truthy(o) == o # Undefined /\ o # Str("")

DefaultApiKey == "suRew@y_Insur@nce_2024_S3cur3_K3y"

Envs ==
  [API_KEY        : {Undefined, Str(""), Str("s3cret")},
   OPENAI_API_KEY : {Undefined, Str(""), Str("sk-test")},
   NODE_ENV       : {Str("development"), Str("production")}]

Methods == {"OPTIONS", "GET", "PUT", "POST"}

ClientKeys == {Undefined, Str(""), Str(DefaultApiKey), Str("s3cret"), Str("wrong")}

FileNames ==
  { <<"p", "o", "l", "i", "c", "y", ".", "p", "n", "g">>,
    <<"S", "C", "A", "N", ".", "P", "N", "G">>,
    <<"a", ".", "j", "p", "g">>,
    <<"a", ".", "j", "p", "e", "g">>,
    <<"p", "o", "l", "i", "c", "y", ".", "p", "d", "f">>,
    <<"a", ".", "d", "o", "c", "x">>,
    <<"a", ".", "p", "n", "g", ".", "t", "x", "t">>,
    <<"r", "e", "a", "d", "m", "e">>,
    <<"p", "n", "g">>,
    <<"J", "P", "G">>,
    <<"p", "d", "f">>,
    <<"a", ".">>,
    <<".", "p", "n", "g">>,
    <<>> }

\* What form.parse hands to its callback: an error, or the files map with
\* or without policy_file (a file has its name, its bytes and whether the
\* temporary file can still be read)
Uploads ==
  [err : {TRUE}, message : {"", "maxFileSize exceeded"}]
  \cup {[err |-> FALSE, files |-> <<>>]}
  \cup {[err |-> FALSE, files |-> <<f>>] :
          f \in [originalFilename : FileNames, readable : BOOLEAN,
                 content : {"bytes"}]}

\* Characters of the generated replies
GenAlphabet == {"{", "}", BQ, "x"}

GenReplies == UNION {[1..n -> GenAlphabet] : n \in 0..MaxReplyLen}

\* Replies written out: the fenced object and the refusal of the scenarios,
\* a full and a partial analysis object (bare and inside prose), objects whose
\* strings hold fence markers, a repeated key, a truncated object, prose with
\* braces, and objects with white space around and inside them
NamedReplies ==
  { <<BQ, BQ, BQ, "j", "s", "o", "n", "\n", "{", "\"", "e", "x", "e", "c", "u", "t", "i", "v", "e", "_", "s", "u", "m", "m", "a", "r", "y", "\"", ":", "{", "\"", "c", "o", "n", "f", "i", "d", "e", "n", "c", "e", "_", "s", "c", "o", "r", "e", "\"", ":", "9", "0", "}", "}", "\n", BQ, BQ, BQ>>,
    <<"S", "o", "r", "r", "y", ",", " ", "I", " ", "c", "a", "n", "n", "o", "t", " ", "p", "r", "o", "c", "e", "s", "s", " ", "t", "h", "i", "s", ".">>,
    <<"{", "\"", "e", "x", "e", "c", "u", "t", "i", "v", "e", "_", "s", "u", "m", "m", "a", "r", "y", "\"", ":", "{", "\"", "s", "a", "v", "i", "n", "g", "s", "_", "p", "o", "t", "e", "n", "t", "i", "a", "l", "\"", ":", "\"", "1", "0", "%", "\"", ",", "\"", "c", "o", "n", "f", "i", "d", "e", "n", "c", "e", "_", "s", "c", "o", "r", "e", "\"", ":", "7", "0", "}", ",", "\"", "s", "a", "v", "i", "n", "g", "s", "_", "o", "p", "p", "o", "r", "t", "u", "n", "i", "t", "i", "e", "s", "\"", ":", "{", "\"", "i", "m", "m", "e", "d", "i", "a", "t", "e", "_", "a", "c", "t", "i", "o", "n", "s", "\"", ":", "[", "\"", "a", "\"", "]", "}", "}">>,
    <<"H", "e", "r", "e", ":", " ", "{", "\"", "e", "x", "e", "c", "u", "t", "i", "v", "e", "_", "s", "u", "m", "m", "a", "r", "y", "\"", ":", "{", "\"", "s", "a", "v", "i", "n", "g", "s", "_", "p", "o", "t", "e", "n", "t", "i", "a", "l", "\"", ":", "\"", "1", "0", "%", "\"", ",", "\"", "c", "o", "n", "f", "i", "d", "e", "n", "c", "e", "_", "s", "c", "o", "r", "e", "\"", ":", "7", "0", "}", ",", "\"", "s", "a", "v", "i", "n", "g", "s", "_", "o", "p", "p", "o", "r", "t", "u", "n", "i", "t", "i", "e", "s", "\"", ":", "{", "}", "}", " ", "o", "k">>,
    <<"{", "\"", "a", "\"", ":", "\"", BQ, BQ, BQ, "\"", "}">>,
    <<"{", "\"", "a", "\"", ":", "\"", BQ, BQ, BQ, "j", "s", "o", "n", "\"", "}">>,
    <<"{", "\"", "a", "\"", ":", "\"", "b", "\"", "}">>,
    <<"{", "\"", "a", "\"", ":", "1", ",", "\"", "a", "\"", ":", "2", "}">>,
    <<"{", "\"", "e", "x", "e", "c", "u", "t", "i", "v", "e", "_", "s", "u", "m", "m", "a", "r", "y", "\"", ":", "{", "\"", "c", "o", "n", "f", "i", "d", "e", "n", "c", "e", "_", "s", "c", "o", "r", "e", "\"", ":", "9", "0", "}">>,
    <<"s", "e", "e", " ", "{", "}", " ", "a", "n", "d", " ", "{", "\"", "a", "\"", ":", "1", "}">>,
    <<"u", "s", "e", " ", "{", "b", "r", "a", "c", "e", "s", "}", " ", "h", "e", "r", "e">>,
    <<"\n", " ", "{", "}", " ", "\n">>,
    <<" ", "{", "\"", "a", "\"", " ", ":", " ", "[", "1", ",", " ", "t", "r", "u", "e", ",", " ", "n", "u", "l", "l", "]", "}", " ">> }

Replies == GenReplies \cup NamedReplies

\* How the chat-completion call ends: fetch rejects, or a response arrives
\* with its status.  A response that has arrived delivers its body in full.
NetworkError == [arrived |-> FALSE, message |-> "fetch failed"]

FetchOutcomes ==
  {NetworkError}
  \cup [arrived : {TRUE}, ok : {FALSE}, status : {401, 429, 500}]
  \cup [arrived : {TRUE}, ok : {TRUE}, status : {200}]

\* What response.json() gives: a rejection (the body is no JSON), a body
\* without choices, a first choice whose content is null, or a content text
JsonBodies ==
  {[kind |-> "invalid"], [kind |-> "nochoices"], [kind |-> "nullcontent"]}
  \cup [kind : {"content"}, content : Replies]

----------------------------------------------------------------------------
(* Prompt and payload *)

systemPrompt == "You are an expert insurance analyst ..."

\* The user prompt: a fixed text around the file name
userPrompt(fileName) == [template |-> "userPrompt", fileName |-> fileName]

PdfNote ==
  "\n\nNote: This is a PDF document. Please analyze based on typical Workers' Compensation policy structures."

\* A text sent to the model: the prompt followed by a note ("" for none)
PromptText(fileName, note) == [prompt |-> userPrompt(fileName), note |-> note]

ImageExtensions == {<<"j", "p", "g">>, <<"j", "p", "e", "g">>, <<"p", "n", "g">>}

PdfExtension == <<"p", "d", "f">>

fileExtension(fileName) == toLowerCase(LastDotSegment(fileName))

imageType(ext) == IF ext = <<"p", "n", "g">> THEN "image/png" ELSE "image/jpeg"

\* fileContent.toString('base64'), kept as the bytes it encodes
base64Content(fileContent) == [base64 |-> fileContent]

\* Variant: the note added to every text that carries no image
UserContent_NoteForAll(fileName, ext, fileContent) ==
  IF ext \in ImageExtensions
  THEN [kind |-> "parts",
        parts |-> << [type |-> "text", text |-> PromptText(fileName, "")],
                     [type |-> "image_url",
                      image_url |-> [mime |-> imageType(ext),
                                     data |-> base64Content(fileContent),
                                     detail |-> "high"]] >>]
  ELSE [kind |-> "parts",
        parts |-> << [type |-> "text", text |-> PromptText(fileName, PdfNote)] >>]

\* The content of the user message, by extension
UserContent(fileName, ext, fileContent) ==
  IF ext \in ImageExtensions
  THEN [kind |-> "parts",
        parts |-> << [type |-> "text", text |-> PromptText(fileName, "")],
                     [type |-> "image_url",
                      image_url |-> [mime |-> imageType(ext),
                                     data |-> base64Content(fileContent),
                                     detail |-> "high"]] >>]
  ELSE IF ext = PdfExtension
  THEN [kind |-> "parts",
        parts |-> << [type |-> "text", text |-> PromptText(fileName, PdfNote)] >>]
  ELSE [kind |-> "string", text |-> PromptText(fileName, "")]

MaxTokens == 2000

\* The body of the chat-completion request
ChatRequest(fileName, ext, fileContent) ==
  [model |-> "gpt-4o",
   messages |-> << [role |-> "system", content |-> systemPrompt],
                   [role |-> "user",
                    content |-> UserContent(fileName, ext, fileContent)] >>,
   max_tokens |-> MaxTokens,
   temperature |-> "0.7"]

----------------------------------------------------------------------------
(* The handler *)

\* res.status(200).end(): a response without a body
EmptyBody == [x \in {} |-> TRUE]

Response(status, body) == [status |-> status, body |-> body]

ErrorBody(error) == [success |-> FALSE, error |-> error]

\* Variant: the secret read without the built-in key behind it
serverApiKey_NoDefault == env.API_KEY

\* process.env.API_KEY || '<built-in key>'
serverApiKey == IF Truthy(env.API_KEY) THEN env.API_KEY ELSE Str(DefaultApiKey)

\* Variant: the catch answers as a success with the fallback result
CatchResponse_Graceful(message) ==
  Response(200, [success |-> TRUE, data |-> FallbackData(<<>>)])

\* The catch of the outer try: 500 with the error's message, and the stack
\* when NODE_ENV is development (an undefined field is left out of the JSON)
CatchResponse(message) ==
  LET error == IF message = "" THEN "Failed to analyze policy" ELSE message
  IN  Response(500,
        IF env.NODE_ENV = Str("development")
        THEN [success |-> FALSE, error |-> error, details |-> "error.stack"]
        ELSE ErrorBody(error))

\* Variant: the message without the status
ModelErrorMessage_NoStatus(status) == "OpenAI API error"

\* new Error(`OpenAI API error: ${response.status}`).message
ModelErrorMessage(status) == "OpenAI API error: " \o ToString(status)

\* The success envelope
SuccessResponse(analysisData, fileName, ext) ==
  Response(200,
    [success |-> TRUE,
     analysis_id |-> "wc_${Date.now()}_${random}",
     data |-> analysisData,
     metadata |-> [file_name |-> fileName, file_type |-> ext,
                   processed_at |-> "new Date().toISOString()",
                   model_used |-> "gpt-4o"]])

MethodNotAllowed == Response(405, ErrorBody("Method not allowed"))

InvalidApiKey == Response(401, ErrorBody("Invalid API key"))

\* Variant: the presence check left out, so that reading policyFile.filepath
\* throws into the catch
NoFileUploaded_Unchecked ==
  CatchResponse("Cannot read properties of undefined (reading 'filepath')")

NoFileUploaded == Response(400, ErrorBody("No file uploaded"))

Finish(response) ==
  /\ responses' = Append(responses, response)
  /\ pc' = "done"

\* Variant: the credential checked before the method
HandlerEntry_KeyFirst(method, clientApiKey) ==
  /\ pc = "idle"
  /\ req' = <<[method |-> method, apiKey |-> clientApiKey]>>
  /\ UNCHANGED <<env, form, upload, reads, fetches, modelResp, analysisResult>>
  /\ IF clientApiKey # serverApiKey
     THEN Finish(InvalidApiKey) /\ UNCHANGED parses
     ELSE IF method = "OPTIONS"
     THEN Finish(Response(200, EmptyBody)) /\ UNCHANGED parses
     ELSE IF method # "POST"
     THEN Finish(MethodNotAllowed) /\ UNCHANGED parses
     ELSE /\ parses' = parses + 1
          /\ pc' = "parsing"
          /\ UNCHANGED responses

\* handler(req, res) up to its first await: method, credential, form.parse
HandlerEntry(method, clientApiKey) ==
  /\ pc = "idle"
  /\ req' = <<[method |-> method, apiKey |-> clientApiKey]>>
  /\ UNCHANGED <<env, form, upload, reads, fetches, modelResp, analysisResult>>
  /\ IF method = "OPTIONS"
     THEN Finish(Response(200, EmptyBody)) /\ UNCHANGED parses
     ELSE IF method # "POST"
     THEN Finish(MethodNotAllowed) /\ UNCHANGED parses
     ELSE IF clientApiKey # serverApiKey
     THEN Finish(InvalidApiKey) /\ UNCHANGED parses
     ELSE /\ parses' = parses + 1
          /\ pc' = "parsing"
          /\ UNCHANGED responses

\* From form.parse's callback to the fetch: file presence, the read, the
\* extension, the model API key, the payload
FormParsed(u) ==
  /\ pc = "parsing"
  /\ form' = <<u>>
  /\ UNCHANGED <<env, req, parses, modelResp, analysisResult>>
  /\ IF u.err
     THEN Finish(CatchResponse(u.message)) /\ UNCHANGED <<upload, reads, fetches>>
     ELSE IF u.files = <<>>
     THEN /\ Finish(NoFileUploaded)
          /\ UNCHANGED <<upload, reads, fetches>>
     ELSE LET policyFile == u.files[1]
              fileName   == policyFile.originalFilename
              ext        == fileExtension(fileName)
          IN  /\ reads' = reads + 1
              /\ IF ~policyFile.readable
                 THEN /\ Finish(CatchResponse("ENOENT: no such file or directory"))
                      /\ UNCHANGED <<upload, fetches>>
                 ELSE /\ upload' = <<[fileName |-> fileName, fileExtension |-> ext,
                                      fileContent |-> policyFile.content]>>
                      /\ IF ~Truthy(env.OPENAI_API_KEY)
                         THEN /\ Finish(CatchResponse("OPENAI_API_KEY not configured"))
                              /\ UNCHANGED fetches
                         ELSE /\ fetches' = Append(fetches,
                                     ChatRequest(fileName, ext, policyFile.content))
                              /\ pc' = "fetching"
                              /\ UNCHANGED responses

\* The fetch settles: a rejection goes to the catch, a response to the
\* reading of its body
FetchSettled(r) ==
  /\ pc = "fetching"
  /\ UNCHANGED <<env, req, form, upload, parses, reads, fetches, analysisResult>>
  /\ modelResp' = <<r>>
  /\ IF ~r.arrived THEN Finish(CatchResponse(r.message))
     ELSE /\ pc' = IF r.ok THEN "json" ELSE "errorText"
          /\ UNCHANGED responses

\* response.text() of a non-success response has resolved: log and throw
ErrorTextRead ==
  /\ pc = "errorText"
  /\ UNCHANGED <<env, req, form, upload, parses, reads, fetches, modelResp,
                 analysisResult>>
  /\ Finish(CatchResponse(ModelErrorMessage(modelResp[1].status)))

\* response.json() of a success response has settled: take the first
\* choice's content, normalise it and answer
JsonRead(b) ==
  /\ pc = "json"
  /\ UNCHANGED <<env, req, form, upload, parses, reads, fetches, modelResp>>
  /\ IF b.kind = "invalid"
     THEN /\ Finish(CatchResponse("Unexpected token < in JSON at position 0"))
          /\ UNCHANGED analysisResult
     ELSE IF b.kind = "nochoices"
     THEN /\ Finish(CatchResponse("Cannot read properties of undefined (reading 'message')"))
          /\ UNCHANGED analysisResult
     ELSE IF b.kind = "nullcontent"
     THEN /\ Finish(CatchResponse("Cannot read properties of null (reading 'substring')"))
          /\ UNCHANGED analysisResult
     ELSE /\ analysisResult' = <<b.content>>
          /\ Finish(SuccessResponse(AnalysisData(b.content),
                                    upload[1].fileName, upload[1].fileExtension))

Init ==
  /\ env \in Envs
  /\ pc = "idle"
  /\ req = <<>>
  /\ form = <<>>
  /\ upload = <<>>
  /\ parses = 0
  /\ reads = 0
  /\ fetches = <<>>
  /\ modelResp = <<>>
  /\ analysisResult = <<>>
  /\ responses = <<>>

Next ==
  \/ \E method \in Methods, clientApiKey \in ClientKeys : HandlerEntry(method, clientApiKey)
  \/ \E u \in Uploads : FormParsed(u)
  \/ \E r \in FetchOutcomes : FetchSettled(r)
  \/ ErrorTextRead
  \/ \E b \in JsonBodies : JsonRead(b)

Spec == Init /\ [][Next]_vars

----------------------------------------------------------------------------
(* Vocabulary of the properties *)

Request == req[1]

Sent == responses # <<>>

Out == responses[1]

\* A JSON envelope has the success flag; the pre-flight answer has no body
IsEnvelope(body) == "success" \in DOMAIN body

IsErrorEnvelope(body) ==
  IsEnvelope(body) /\ body.success = FALSE /\ "data" \notin DOMAIN body

IsSuccess(r) == r.status = 200 /\ IsEnvelope(r.body) /\ r.body.success = TRUE

\* Nothing of the upload was touched and the model was not called
Untouched == parses = 0 /\ reads = 0 /\ fetches = <<>>

\* The secret a request must present: API_KEY when it is set to a non-empty
\* value, the built-in key otherwise
ConfiguredSecret ==
  IF env.API_KEY \in {Undefined, Str("")} THEN Str(DefaultApiKey) ELSE env.API_KEY

BadCredential == Request.apiKey = Undefined \/ Request.apiKey # ConfiguredSecret

NoFileParsed == form # <<>> /\ ~form[1].err /\ form[1].files = <<>>

UserMessage == fetches[1].messages[2].content

\* The text of a one-part payload, whichever way it is written
SingleText(content) ==
  IF content.kind = "string" THEN <<content.text>>
  ELSE IF Len(content.parts) = 1 /\ content.parts[1].type = "text"
       THEN <<content.parts[1].text>>
       ELSE <<>>

HasImagePart(content) ==
  content.kind = "parts" /\ \E i \in 1..Len(content.parts) : content.parts[i].type = "image_url"

\* The shape every result is said to have
HasSummaryShape(data) ==
  /\ Has(data, K_executive_summary)
  /\ Has(Get(data, K_executive_summary), K_savings_potential)
  /\ Has(Get(data, K_executive_summary), K_confidence_score)
  /\ Has(data, K_savings_opportunities)

\* The fallback result as the caller sees it
IsFallbackOf(data, reply) ==
  /\ Has(data, K_executive_summary)
  /\ Has(Get(data, K_executive_summary), K_confidence_score)
  /\ Get(Get(data, K_executive_summary), K_confidence_score) = JNum(85)
  /\ Has(data, K_savings_opportunities)
  /\ Has(Get(data, K_savings_opportunities), K_immediate_actions)
  /\ LET actions == Get(Get(data, K_savings_opportunities), K_immediate_actions)
     IN  actions.t = "arr" /\ Len(actions.e) > 0
  /\ Has(data, K_full_analysis_text)
  /\ Get(data, K_full_analysis_text) = JStr(reply)

----------------------------------------------------------------------------
(* Properties *)

C2_MissingFileIs400 ==
  NoFileParsed
    => /\ Len(responses) = 1
       /\ Out.status = 400
       /\ IsErrorEnvelope(Out.body)
       /\ fetches = <<>> /\ reads = 0

C2_Witness ==
  NoFileParsed /\ Truthy(env.OPENAI_API_KEY) /\ Sent /\ Out.status = 400

\* C3: in every success envelope, for every reply text, data holds
\* executive_summary with savings_potential and confidence_score, and
\* savings_opportunities.
C3_SuccessHasSummaryShape ==
  (Sent /\ IsSuccess(Out)) => HasSummaryShape(Out.body.data)

C5_DotlessNameHasNoExtension ==
  (upload # <<>> /\ \A i \in 1..Len(upload[1].fileName) : upload[1].fileName[i] # ".")
    => /\ upload[1].fileExtension = <<>>
       /\ fetches # <<>> => ~HasImagePart(UserMessage)

\* C6 as claimed: for every reply that is not JSON (neither as it stands nor
\* with its fences removed) the request succeeds with the fallback result:
\* confidence_score 85, a non-empty immediate_actions, full_analysis_text
\* equal to the reply.
C6_NonJsonFallsBack ==
  (analysisResult # <<>>
     /\ ~JSONparse(analysisResult[1]).ok
     /\ ~JSONparse(CleanedResult(analysisResult[1])).ok)
    => /\ Len(responses) = 1 /\ IsSuccess(Out)
       /\ IsFallbackOf(Out.body.data, analysisResult[1])

\* The span from the first '{' to the last '}' of the reply, fences removed
\* and trimmed, is a JSON object
HasJsonSpan(reply) ==
  LET cleaned == trim(RemoveAll(RemoveAll(reply, FenceJson), Fence))
      opens   == {i \in 1..Len(cleaned) : cleaned[i] = "{"}
      closes  == {i \in 1..Len(cleaned) : cleaned[i] = "}"}
  IN  /\ opens # {} /\ closes # {} /\ Min(opens) < Max(closes)
      /\ JSONparse(SubSeq(cleaned, Min(opens), Max(closes))).ok

\* C6 as amended: for every reply that holds no JSON span the request
\* succeeds with the fallback result, and no parse failure reaches the caller.
C6_NoJsonSpanFallsBack ==
  (analysisResult # <<>> /\ ~HasJsonSpan(analysisResult[1]))
    => /\ Len(responses) = 1 /\ IsSuccess(Out)
       /\ IsFallbackOf(Out.body.data, analysisResult[1])

C6_Witness ==
  /\ analysisResult # <<>>
  /\ analysisResult[1] = <<BQ, BQ, BQ, "{">>
  /\ Sent /\ IsSuccess(Out)

\* C7: for every reply that is exactly a valid JSON object the result is the
\* object parsed from the reply, every field verbatim.
C7_CleanJsonVerbatim ==
  (analysisResult # <<>>
     /\ JSONparse(analysisResult[1]).ok
     /\ analysisResult[1][1] = "{"
     /\ analysisResult[1][Len(analysisResult[1])] = "}")
    => /\ Sent /\ IsSuccess(Out)
       /\ Out.body.data = JSONparse(analysisResult[1]).val

\* The model call returned a success status and a result was made of it
ResultProduced ==
  /\ modelResp # <<>> /\ modelResp[1].arrived /\ modelResp[1].ok
  /\ analysisResult # <<>>

\* C8 as claimed: a finished request has success=true exactly when the model
\* call succeeded and a result was produced; every other outcome is an error
\* envelope with success=false and no data.
C8_SuccessOrErrorEnvelope ==
  pc = "done"
    => /\ Len(responses) = 1
       /\ IF ResultProduced
          THEN IsSuccess(Out) /\ "data" \in DOMAIN Out.body
          ELSE IsErrorEnvelope(Out.body)

\* C8 as amended: the same, except that the OPTIONS pre-flight is answered
\* 200 with no body at all.
C8_SuccessOrErrorOrPreflight ==
  pc = "done"
    => /\ Len(responses) = 1
       /\ IF Request.method = "OPTIONS"
          THEN Out = Response(200, EmptyBody) /\ ~ResultProduced
          ELSE IF ResultProduced
          THEN IsSuccess(Out) /\ "data" \in DOMAIN Out.body
          ELSE IsErrorEnvelope(Out.body) /\ Out.status \in {400, 401, 405, 500}

C8_Witness ==
  /\ pc = "done" /\ ResultProduced /\ IsSuccess(Out)
  /\ ~HasJsonSpan(analysisResult[1])

\* C9: method, credential and file presence are checked in that order and
\* the first violated one decides the response; after an early response no
\* later stage has run.
C9_ValidationOrder ==
  Sent
    => /\ Request.method = "OPTIONS" => Out = Response(200, EmptyBody) /\ Untouched
       /\ Request.method \notin {"OPTIONS", "POST"}
            => Out.status = 405 /\ IsErrorEnvelope(Out.body) /\ Untouched
       /\ (Request.method = "POST" /\ BadCredential)
            => Out.status = 401 /\ IsErrorEnvelope(Out.body) /\ Untouched
       /\ Out.status = 400
            <=> (Request.method = "POST" /\ ~BadCredential /\ NoFileParsed)
       /\ Out.status = 400 => reads = 0 /\ fetches = <<>>
       /\ pc = "done"

C9_Witness ==
  /\ Sent /\ Request.method = "GET" /\ BadCredential /\ Out.status = 405

====
